---- MODULE Spec2Model ----
(***************************************************************************)
(* Model of pacs::algebra::Matrix<T, O> (src/include/Matrix.hpp), the      *)
(* sparse matrix with a coordinate map (COOmap) body and a compressed      *)
(* (CSR/CSC) body.                                                         *)
(*                                                                         *)
(* T is instantiated with the integers, so std::abs(x) > TOLERANCE_PACS    *)
(* (1E-10) holds exactly for x # 0.  The build is the default one of the   *)
(* Makefile: NDEBUG and PARALLEL_PACS undefined, every assert active.  A   *)
(* failed assert aborts the program: err names the contract it checks and  *)
(* no operation follows.  The variable build is "sequential" for that      *)
(* build; SpecScalar also starts with PARALLEL_PACS defined.               *)
(*                                                                         *)
(* Indices are the 0-based indices of the code; the vectors inner, outer   *)
(* and values are sequences, so inner[j] of the code is inner[j + 1] here. *)
(*                                                                         *)
(* Reading through the end() iterator of the map is undefined behaviour:   *)
(* the key read there is a nondeterministic key G (GarbageKeys), the same  *)
(* for every read of one call since the map is not modified in between.    *)
(***************************************************************************)
EXTENDS Integers, Sequences, FiniteSets, TLC

VARIABLES O, build, m, copy, op, err, res, ref, snap

vars == <<O, build, m, copy, op, err, res, ref, snap>>

\* Bounds of the model.
MaxDim == 2
MaxNnz == 2
MaxVal == 1
MaxList == 2
MaxCells == 2
MaxScalar == 2

\* #define TOLERANCE_PACS 1E-10, in the integers.
TOLERANCE_PACS == 0

Orders == {"Row", "Column"}
Vals == (-1) .. MaxVal
Dims == 1 .. MaxDim

Abs(x) == IF x < 0 THEN -x ELSE x

\* std::abs(value) > TOLERANCE_PACS
Above(v) == Abs(v) > TOLERANCE_PACS

Min(S) == CHOOSE x \in S : \A y \in S : x <= y

\* ------------------------------------------------------------------------
\* std::map<std::array<std::size_t, 2>, T>: a function from a finite set of
\* keys <<primary, secondary>> to values, iterated in lexicographic order.

EmptyMap == [key \in {} |-> 0]

\* operator < of std::array<std::size_t, 2>.
KeyLess(a, b) == a[1] < b[1] \/ (a[1] = b[1] /\ a[2] < b[2])

\* elements[key] = value
Put(elements, key, value) ==
    [x \in (DOMAIN elements) \cup {key} |-> IF x = key THEN value ELSE elements[x]]

RECURSIVE SortKeys(_)
\* The keys of a map in iteration order (begin() .. end()).
SortKeys(S) ==
    IF S = {} THEN <<>>
    ELSE LET first == CHOOSE a \in S : \A b \in S : a = b \/ KeyLess(a, b)
         IN  <<first>> \o SortKeys(S \ {first})

\* elements.lower_bound(key): the position of the first key not less than
\* key, Len(keys) + 1 (end()) when there is none.
LowerBound(keys, key) ==
    LET I == {i \in 1 .. Len(keys) : ~KeyLess(keys[i], key)}
    IN  IF I = {} THEN Len(keys) + 1 ELSE Min(I)

\* (*it).first: the key at an iterator; G when the iterator is end().
Deref(keys, it, G) == IF it <= Len(keys) THEN keys[it] ELSE G

\* The keys a read through end() can yield, up to what the comparisons of
\* the code distinguish.
GarbageKeys(first, second) == (0 .. first) \X (0 .. second)

\* ------------------------------------------------------------------------
\* The Matrix object.

\* Matrix(first, second)
EmptyMatrix(first, second) ==
    [first |-> first, second |-> second, compressed |-> FALSE,
     elements |-> EmptyMap, inner |-> <<>>, outer |-> <<>>, values |-> <<>>]

\* Matrix(first, second, elements), past its asserts.
MapMatrix(first, second, elements) ==
    [first |-> first, second |-> second, compressed |-> FALSE,
     elements |-> elements, inner |-> <<>>, outer |-> <<>>, values |-> <<>>]

\* The assert of the map constructor: every key within bounds.
KeysInBounds(first, second, elements) ==
    \A key \in DOMAIN elements : key[1] < first /\ key[2] < second

\* rows() returning the first dimension whatever the ordering.
rowsFirst(M) == M.first

\* rows(), columns()
rows(M) == IF O = "Row" THEN M.first ELSE M.second
columns(M) == IF O = "Column" THEN M.first ELSE M.second

\* shape()
shape(M) == <<rows(M), columns(M)>>

\* size()
size(M) == IF ~M.compressed THEN Cardinality(DOMAIN M.elements) ELSE Len(M.values)

RECURSIVE ScanCompressed(_, _, _, _)
\* The loop of operator() on a compressed matrix: the first i in
\* [i, stop) with outer[i] = k.
ScanCompressed(M, i, stop, k) ==
    IF i >= stop THEN 0
    ELSE IF k = M.outer[i + 1] THEN M.values[i + 1]
    ELSE ScanCompressed(M, i + 1, stop, k)

\* T operator ()(j, k) const, past its assert.
At(M, j, k) ==
    IF ~M.compressed
    THEN IF <<j, k>> \in DOMAIN M.elements THEN M.elements[<<j, k>>] ELSE 0
    ELSE ScanCompressed(M, M.inner[j + 1], M.inner[j + 2], k)

\* ------------------------------------------------------------------------
\* compress()

RECURSIVE CompressLine(_, _, _, _, _, _)
\* The inner for loop of compress(): from iterator it while the key at it
\* is less than bound, append the entries above the tolerance.
\* acc = <<outer, values>>.
CompressLine(elements, keys, it, bound, G, acc) ==
    \* (it is never end() when the condition holds: lower_bound(next) is then
    \* end() as well and both reads yield the same key.)
    IF it <= Len(keys) /\ KeyLess(Deref(keys, it, G), bound)
    THEN LET key == keys[it]
             value == elements[key]
         IN  CompressLine(elements, keys, it + 1, bound, G,
                 IF Above(value)
                 THEN <<Append(acc[1], key[2]), Append(acc[2], value)>>
                 ELSE acc)
    ELSE acc

RECURSIVE CompressFromStale(_, _, _, _, _)
\* CompressFrom recording in inner[j] the index before line j instead of
\* the index after it.
CompressFromStale(M, keys, j, G, acc) ==
    IF j >= M.first + 1 THEN acc
    ELSE LET current == <<j - 1, 0>>
             next == <<j, 0>>
             bound == Deref(keys, LowerBound(keys, next), G)
             line == CompressLine(M.elements, keys, LowerBound(keys, current),
                                  bound, G, <<acc[2], acc[3]>>)
         IN  CompressFromStale(M, keys, j + 1, G,
                 <<Append(acc[1], Len(acc[2])), line[1], line[2]>>)

RECURSIVE CompressFrom(_, _, _, _, _)
\* The outer for loop of compress(), from line j (1 .. first).
\* acc = <<inner, outer, values>>.
CompressFrom(M, keys, j, G, acc) ==
    IF j >= M.first + 1 THEN acc
    ELSE LET current == <<j - 1, 0>>
             next == <<j, 0>>
             bound == Deref(keys, LowerBound(keys, next), G)
             line == CompressLine(M.elements, keys, LowerBound(keys, current),
                                  bound, G, <<acc[2], acc[3]>>)
         IN  CompressFrom(M, keys, j + 1, G,
                 <<Append(acc[1], Len(line[1])), line[1], line[2]>>)

\* compress() without its early return: a compressed matrix is compressed
\* again from its empty coordinate map.
compressAgain(M, G) ==
    LET acc == CompressFrom(M, SortKeys(DOMAIN M.elements), 1, G,
                            <<(<<0>>), <<>>, <<>>>>)
    IN  [M EXCEPT !.compressed = TRUE, !.elements = EmptyMap,
                  !.inner = acc[1], !.outer = M.outer \o acc[2],
                  !.values = M.values \o acc[3]]

\* compress(), with G the key read through end().
compress(M, G) ==
    IF M.compressed THEN M
    ELSE LET acc == CompressFrom(M, SortKeys(DOMAIN M.elements), 1, G,
                                 <<(<<0>>), <<>>, <<>>>>)
         IN  [M EXCEPT !.compressed = TRUE, !.elements = EmptyMap,
                       !.inner = acc[1], !.outer = acc[2], !.values = acc[3]]

\* ------------------------------------------------------------------------
\* uncompress()

RECURSIVE UncompressLine(_, _, _, _, _)
\* The inner for loop of uncompress() on line j, from position k.
UncompressLine(M, j, k, stop, elements) ==
    IF k >= stop THEN elements
    ELSE UncompressLine(M, j, k + 1, stop,
             IF Above(M.values[k + 1])
             THEN Put(elements, <<j, M.outer[k + 1]>>, M.values[k + 1])
             ELSE elements)

RECURSIVE UncompressFrom(_, _, _)
\* The outer for loop of uncompress(), from line j.
UncompressFrom(M, j, elements) ==
    IF j >= Len(M.inner) - 1 THEN elements
    ELSE UncompressFrom(M, j + 1,
             UncompressLine(M, j, M.inner[j + 1], M.inner[j + 2], elements))

\* uncompress() that keeps the compressed vectors.
uncompressKeeping(M) ==
    IF ~M.compressed THEN M
    ELSE [M EXCEPT !.compressed = FALSE,
                   !.elements = UncompressFrom(M, 0, M.elements)]

\* uncompress()
uncompress(M) ==
    IF ~M.compressed THEN M
    ELSE [M EXCEPT !.compressed = FALSE,
                   !.elements = UncompressFrom(M, 0, M.elements),
                   !.inner = <<>>, !.outer = <<>>, !.values = <<>>]

\* ------------------------------------------------------------------------
\* Insertion.

Outcome(M, e) == [m |-> M, err |-> e]

\* insert with the bounds check off by one.
insertLoose(M, j, k, element) ==
    IF ~((j <= M.first) /\ (k <= M.second)) THEN Outcome(M, "OutOfBounds")
    ELSE IF M.compressed THEN Outcome(M, "CompressedMutation")
    ELSE IF Above(element)
         THEN Outcome([M EXCEPT !.elements = Put(@, <<j, k>>, element)], "none")
         ELSE Outcome(M, "none")

\* insert storing every element, whatever its magnitude.
insertUnfiltered(M, j, k, element) ==
    IF ~((j < M.first) /\ (k < M.second)) THEN Outcome(M, "OutOfBounds")
    ELSE IF M.compressed THEN Outcome(M, "CompressedMutation")
    ELSE Outcome([M EXCEPT !.elements = Put(@, <<j, k>>, element)], "none")

\* insert(j, k, element)
insert(M, j, k, element) ==
    IF ~((j < M.first) /\ (k < M.second)) THEN Outcome(M, "OutOfBounds")
    ELSE IF M.compressed THEN Outcome(M, "CompressedMutation")
    ELSE IF Above(element)
         THEN Outcome([M EXCEPT !.elements = Put(@, <<j, k>>, element)], "none")
         ELSE Outcome(M, "none")

RECURSIVE InsertVectorFrom(_, _, _, _)
\* The for loop of insert_vector, from position j (0-based).
InsertVectorFrom(M, coordinates, elements, j) ==
    IF j >= Len(coordinates) THEN Outcome(M, "none")
    ELSE IF ~(coordinates[j + 1][1] < M.first) THEN Outcome(M, "OutOfBounds")
    ELSE IF ~(coordinates[j + 1][2] < M.second) THEN Outcome(M, "OutOfBounds")
    ELSE InsertVectorFrom(
             IF Above(elements[j + 1])
             THEN [M EXCEPT !.elements = Put(@, coordinates[j + 1], elements[j + 1])]
             ELSE M,
             coordinates, elements, j + 1)

\* insert_vector without the check of the compressed flag.
insert_vectorUnchecked(M, coordinates, elements) ==
    IF Len(coordinates) # Len(elements) THEN Outcome(M, "SizeMismatch")
    ELSE InsertVectorFrom(M, coordinates, elements, 0)

\* insert_vector(coordinates, elements)
insert_vector(M, coordinates, elements) ==
    IF M.compressed THEN Outcome(M, "CompressedMutation")
    ELSE IF Len(coordinates) # Len(elements) THEN Outcome(M, "SizeMismatch")
    ELSE InsertVectorFrom(M, coordinates, elements, 0)

\* elements[i] of a std::vector: g[i] (an undefined read) past its end.
VectorRead(elements, i, g) ==
    IF i < Len(elements) THEN elements[i + 1] ELSE g[i]

RECURSIVE InsertRangeFrom(_, _, _, _, _, _, _)
\* The two for loops of insert_range, from (j, k).
InsertRangeFrom(M, start, end, elements, g, j, k) ==
    IF j >= end[1] THEN M
    ELSE IF k >= end[2] THEN InsertRangeFrom(M, start, end, elements, g, j + 1, start[2])
    ELSE InsertRangeFrom(
             IF Above(VectorRead(elements, j, g))
             THEN [M EXCEPT !.elements =
                      Put(@, <<j, k>>, VectorRead(elements, j * (end[2] - start[2]) + k, g))]
             ELSE M,
             start, end, elements, g, j, k + 1)

\* The positions insert_range reads in elements.
RangeReads(start, end) ==
    UNION {{j, j * (end[2] - start[2]) + k} :
               j \in start[1] .. end[1] - 1, k \in start[2] .. end[2] - 1}

\* insert_range(start, end, elements)
insert_range(M, start, end, elements, g) ==
    IF M.compressed THEN Outcome(M, "CompressedMutation")
    ELSE IF ~((start[1] < end[1]) /\ (end[1] < M.first)) THEN Outcome(M, "OutOfBounds")
    ELSE IF ~((start[2] < end[2]) /\ (end[2] < M.second)) THEN Outcome(M, "OutOfBounds")
    ELSE IF (end[2] - start[2]) * (end[1] - start[1]) # Len(elements)
         THEN Outcome(M, "SizeMismatch")
    ELSE Outcome(InsertRangeFrom(M, start, end, elements, g, start[1], start[2]), "none")

\* ------------------------------------------------------------------------
\* Copies and the scalar operators.

\* Matrix(const Matrix &matrix)
CopyMatrix(matrix) ==
    IF ~matrix.compressed
    THEN [first |-> matrix.first, second |-> matrix.second,
          compressed |-> matrix.compressed, elements |-> matrix.elements,
          inner |-> <<>>, outer |-> <<>>, values |-> <<>>]
    ELSE [first |-> matrix.first, second |-> matrix.second,
          compressed |-> matrix.compressed, elements |-> EmptyMap,
          inner |-> matrix.inner, outer |-> matrix.outer, values |-> matrix.values]

\* operator =(const Matrix &matrix)
Assign(M, matrix) ==
    IF ~((M.first = matrix.first) /\ (M.second = matrix.second))
    THEN Outcome(M, "DimensionMismatch")
    ELSE IF ~matrix.compressed
    THEN Outcome([M EXCEPT !.compressed = matrix.compressed,
                           !.elements = matrix.elements,
                           !.inner = <<>>, !.outer = <<>>, !.values = <<>>], "none")
    ELSE Outcome([M EXCEPT !.compressed = matrix.compressed,
                           !.elements = EmptyMap,
                           !.inner = matrix.inner, !.outer = matrix.outer,
                           !.values = matrix.values], "none")

\* operator *=(scalar), sequential build.
MulAssign(M, scalar) ==
    IF ~M.compressed
    THEN [M EXCEPT !.elements = [key \in DOMAIN M.elements |-> M.elements[key] * scalar]]
    ELSE [M EXCEPT !.values = [i \in DOMAIN M.values |-> M.values[i] * scalar]]

\* The quotient of T = int: truncated towards zero.
Quotient(a, b) ==
    IF (a < 0) = (b < 0) THEN Abs(a) \div Abs(b) ELSE -(Abs(a) \div Abs(b))

\* operator /=(scalar), sequential build.
DivAssign(M, scalar) ==
    IF ~M.compressed
    THEN [M EXCEPT !.elements =
             [key \in DOMAIN M.elements |-> Quotient(M.elements[key], scalar)]]
    ELSE [M EXCEPT !.values = [i \in DOMAIN M.values |-> Quotient(M.values[i], scalar)]]

\* operator /=(scalar), PARALLEL_PACS build: the values of a compressed
\* matrix go through the lambda named division, which returns
\* element *= scalar.
DivAssignParallel(M, scalar) ==
    IF ~M.compressed
    THEN [M EXCEPT !.elements =
             [key \in DOMAIN M.elements |-> Quotient(M.elements[key], scalar)]]
    ELSE [M EXCEPT !.values = [i \in DOMAIN M.values |-> M.values[i] * scalar]]

\* operator * dropping the entries whose product is within the tolerance.
MulFiltered(M, scalar) ==
    LET result == CopyMatrix(M)
        kept == {key \in DOMAIN result.elements : Above(result.elements[key] * scalar)}
    IN  IF ~result.compressed
        THEN [result EXCEPT !.elements = [key \in kept |-> result.elements[key] * scalar]]
        ELSE MulAssign(result, scalar)

\* Matrix result = *this; then the loops of operator *=, in either build.
Mul(M, scalar) == MulAssign(CopyMatrix(M), scalar)

\* Matrix result = *this; then the loops of operator /=: in the
\* PARALLEL_PACS build the lambda of operator / returns element /= scalar,
\* so both builds divide.
Div(M, scalar) == DivAssign(CopyMatrix(M), scalar)

\* ------------------------------------------------------------------------
\* Inputs.

\* Sequences over S of length at most n.
SeqsUpTo(S, n) == UNION {[1 .. l -> S] : l \in 0 .. n}

\* Coordinate maps with at most n entries over the keys K.
MapsOver(K, n) ==
    UNION {[D -> Vals] : D \in {D \in SUBSET K : Cardinality(D) <= n}}

\* The keys of a first by second matrix.
Keys(first, second) == (0 .. first - 1) \X (0 .. second - 1)

\* The keys of a first by second matrix and two keys out of its bounds.
KeysAndBeyond(first, second) == Keys(first, second) \cup {<<first, 0>>, <<0, second>>}

\* The values of a stored body stay within Vals.
InVals(M) ==
    /\ \A key \in DOMAIN M.elements : M.elements[key] \in Vals
    /\ \A i \in DOMAIN M.values : M.values[i] \in Vals

\* The entries of a matrix as a coordinate map, whatever its mode.
Content(M) == IF ~M.compressed THEN M.elements ELSE UncompressFrom(M, 0, EmptyMap)

\* The matrices a program holds with at most n entries: built by the map
\* constructor, compressed or not.
Matrices(first, second, n) ==
    LET U == {MapMatrix(first, second, e) : e \in MapsOver(Keys(first, second), n)}
    IN  U \cup {compress(M, G) : M \in U, G \in GarbageKeys(first, second)}

\* The right-hand sides of a copy assignment.
Sources == UNION {Matrices(first, second, 1) : first \in Dims, second \in Dims}

\* ------------------------------------------------------------------------
\* Operations of the program on the matrix m.  op is the last operation and
\* its arguments, err its contract violation ("none" when it returned), res
\* its result, snap the coordinate map compress() started from while the
\* matrix stays compressed and right after uncompress() restores it, ref
\* (where a specification tracks it) the value last inserted at each
\* coordinate.  copy is a second Matrix object of the program, where it has
\* one.

NoRes == <<>>

\* No object: a constructor that failed.
NoMatrix == EmptyMatrix(0, 0)

NoSnap == [taken |-> FALSE, elements |-> EmptyMap]

\* snap after the operation name.
NextSnap(name) ==
    CASE name = "compress" -> IF m.compressed THEN snap
                              ELSE [taken |-> TRUE, elements |-> m.elements]
      [] name = "uncompress" -> IF m.compressed THEN snap ELSE NoSnap
      [] name \in {"call", "norm_one", "norm_infinity"} -> snap
      [] OTHER -> NoSnap

NoRef == [tracked |-> FALSE, elements |-> EmptyMap]

\* ref after the operation name with arguments args and violation e.
NextRef(name, args, e) ==
    IF ref.tracked /\ name = "insert" /\ e = "none"
    THEN [ref EXCEPT !.elements = Put(@, <<args[1], args[2]>>, args[3])]
    ELSE ref

\* A failed assert aborted the program.
Running == err = "none"

\* The operation name leaves m as M and copy as C.
Effect(name, args, M, C, e, result) ==
    /\ snap' = NextSnap(name)
    /\ op' = [name |-> name, args |-> args]
    /\ m' = M
    /\ copy' = C
    /\ err' = e
    /\ res' = result
    /\ ref' = NextRef(name, args, e)
    /\ O' = O
    /\ build' = build

\* An operation within the bounds of the model.
Step(name, args, M, C, e, result) ==
    /\ size(M) <= MaxNnz
    /\ InVals(M)
    /\ Effect(name, args, M, C, e, result)

\* A member function of m writing through to copy: the two objects sharing
\* their bodies as long as they are equal.
DoShared(name, args, M, e, result) ==
    Step(name, args, M, IF copy = m THEN M ELSE copy, e, result)

\* A member function of m: the members of m are its own, copy is left as
\* it is.
Do(name, args, M, e, result) == Step(name, args, M, copy, e, result)

\* Matrix(first, second): the object and the contract violation.
Construct(first, second) ==
    IF ~((first > 0) /\ (second > 0)) THEN Outcome(NoMatrix, "InvalidDimension")
    ELSE Outcome(EmptyMatrix(first, second), "none")

\* Matrix(first, second, elements): the object and the contract violation.
ConstructMap(first, second, elements) ==
    IF ~((first > 0) /\ (second > 0)) THEN Outcome(NoMatrix, "InvalidDimension")
    ELSE IF ~KeysInBounds(first, second, elements) THEN Outcome(NoMatrix, "OutOfBounds")
    ELSE Outcome(MapMatrix(first, second, elements), "none")

\* Matrix(const Matrix &): the program goes on with the copy.
Copy == Running /\ Do("MatrixCopy", <<>>, CopyMatrix(m), "none", NoRes)

\* m = matrix
CopyAssign ==
    /\ Running
    /\ \E matrix \in Sources :
        LET out == Assign(m, matrix)
        IN  Do("assign", IF out.err = "none" THEN <<matrix>> ELSE <<>>,
               out.m, out.err, NoRes)

\* this->elements[key] of std::map: the value at key and the map after the
\* access, which holds a value-initialized entry where it had none.
Subscript(elements, key) ==
    IF key \in DOMAIN elements
    THEN [elements |-> elements, value |-> elements[key]]
    ELSE [elements |-> Put(elements, key, 0), value |-> 0]

\* operator() reading this->elements[{j, k}] without asking contains first.
callSubscript(M, j, k) ==
    IF ~M.compressed
    THEN LET read == Subscript(M.elements, <<j, k>>)
         IN  [m |-> [M EXCEPT !.elements = read.elements], value |-> read.value]
    ELSE [m |-> M, value |-> At(M, j, k)]

\* operator()(j, k), past its assert: the value returned and the object
\* after the call (elements is a mutable member).
call(M, j, k) ==
    IF ~M.compressed
    THEN IF <<j, k>> \in DOMAIN M.elements
         THEN LET read == Subscript(M.elements, <<j, k>>)
              IN  [m |-> [M EXCEPT !.elements = read.elements], value |-> read.value]
         ELSE [m |-> M, value |-> 0]
    ELSE [m |-> M, value |-> At(M, j, k)]

\* m(j, k)
Call ==
    /\ Running
    /\ \E j \in 0 .. MaxDim, k \in 0 .. MaxDim :
        IF ~((j < m.first) /\ (k < m.second))
        THEN Do("call", <<j, k>>, m, "OutOfBounds", NoRes)
        ELSE LET out == call(m, j, k)
             IN  Do("call", <<j, k>>, out.m, "none", out.value)

\* m.insert(j, k, element), element in V.
InsertOf(V) ==
    /\ Running
    /\ \E j \in 0 .. MaxDim, k \in 0 .. MaxDim, element \in V :
        LET out == insert(m, j, k, element)
        IN  Do("insert", <<j, k, element>>, out.m, out.err, NoRes)

Insert == InsertOf(Vals)

\* The arguments of insert_vector: lists of equal sizes, and two of
\* different sizes.
VectorArgs(M) ==
    UNION {[1 .. l -> KeysAndBeyond(M.first, M.second)] \X [1 .. l -> 0 .. MaxVal] :
               l \in 0 .. MaxList}
    \cup {<< <<>>, <<1>> >>, << <<(<<0, 0>>)>>, <<>> >>}

\* m.insert_vector(coordinates, elements)
InsertVector ==
    /\ Running
    /\ \E args \in VectorArgs(m) :
        LET out == insert_vector(m, args[1], args[2])
        IN  Do("insert_vector", IF out.err = "none" THEN args ELSE <<>>,
               out.m, out.err, NoRes)

\* m.insert_range(start, end, elements); op keeps the arguments of a call
\* that was refused only where kept.
InsertRangeAs(kept) ==
    /\ Running
    /\ \E start \in Keys(m.first, m.second),
       end \in (0 .. m.first) \X (0 .. m.second),
       elements \in SeqsUpTo(0 .. MaxVal, MaxList) :
        \E g \in [{i \in RangeReads(start, end) : i >= Len(elements)} -> Vals] :
            LET out == insert_range(m, start, end, elements, g)
            IN  Do("insert_range",
                   IF kept \/ out.err = "none" THEN <<start, end, elements>> ELSE <<>>,
                   out.m, out.err, NoRes)

InsertRange == InsertRangeAs(FALSE)

\* m.compress()
Compress ==
    /\ Running
    /\ \E G \in GarbageKeys(m.first, m.second) :
        Do("compress", <<>>, compress(m, G), "none", NoRes)

\* m.uncompress()
Uncompress == Running /\ Do("uncompress", <<>>, uncompress(m), "none", NoRes)

\* m *= scalar
ScalarMul ==
    /\ Running
    /\ \E scalar \in Vals :
        Do("mul_assign", <<scalar>>, MulAssign(m, scalar), "none", NoRes)

\* The builds of the program: PARALLEL_PACS defined or not.
Builds == {"sequential", "PARALLEL_PACS"}

\* operator /=(scalar) of the build.
div_assign(M, scalar) ==
    IF build = "PARALLEL_PACS" THEN DivAssignParallel(M, scalar) ELSE DivAssign(M, scalar)

\* m /= scalar
ScalarDiv ==
    /\ Running
    /\ \E scalar \in Vals \ {0} :
        Do("div_assign", <<scalar>>, div_assign(m, scalar), "none", NoRes)

\* The state after construction, by Matrix(first, second) or by
\* Matrix(first, second, elements).
Init ==
    /\ O \in Orders
    /\ build = "sequential"
    /\ \E first \in 0 .. MaxDim, second \in 0 .. MaxDim :
          \/ LET out == Construct(first, second)
             IN  /\ m = out.m
                 /\ err = out.err
                 /\ op = [name |-> "Matrix", args |-> <<first, second>>]
          \/ \E elements \in MapsOver(KeysAndBeyond(first, second), MaxNnz) :
                LET out == ConstructMap(first, second, elements)
                IN  /\ m = out.m
                    /\ err = out.err
                    /\ op = [name |-> "MatrixMap", args |-> <<first, second, elements>>]
    /\ copy = NoMatrix
    /\ ref = NoRef
    /\ snap = NoSnap
    /\ res = NoRes

Next ==
    \/ Copy
    \/ CopyAssign
    \/ Call
    \/ Insert
    \/ InsertVector
    \/ InsertRange
    \/ Compress
    \/ Uncompress
    \/ ScalarMul
    \/ ScalarDiv

Spec == Init /\ [][Next]_vars

\* ------------------------------------------------------------------------
\* An empty matrix filled by insert, with ref tracking the inserted values.

InsertAbove == InsertOf({v \in Vals : Above(v)})

InitRefine ==
    /\ O \in Orders
    /\ build = "sequential"
    /\ \E first \in Dims, second \in Dims :
          /\ m = EmptyMatrix(first, second)
          /\ op = [name |-> "Matrix", args |-> <<first, second>>]
    /\ err = "none"
    /\ copy = NoMatrix
    /\ ref = [tracked |-> TRUE, elements |-> EmptyMap]
    /\ snap = NoSnap
    /\ res = NoRes

NextRefine ==
    \/ InsertAbove
    \/ Compress
    \/ Uncompress

SpecRefine == InitRefine /\ [][NextRefine]_vars

\* ------------------------------------------------------------------------
\* Products with a std::vector.  A result is the vector and ub, set when
\* the loops index a vector past its end: the result is then whatever the
\* program makes of the memory behind it.

Zeros(n) == [i \in 1 .. n |-> 0]

\* result[i] += x
AddAt(result, i, x) == [result EXCEPT ![i + 1] = @ + x]

\* A result and whether undefined behaviour was met on the way.
Defined(vector) == [vector |-> vector, ub |-> FALSE]
Undefined(vector) == [vector |-> vector, ub |-> TRUE]

RECURSIVE OverElements(_, _, _, _, _, _)
\* for(const auto &[key, value]: elements)
\*     result[key[to]] += value * vector[key[from]];
\* with to and from the positions 1 and 2 of the key; an index past the end
\* of result or of vector is undefined behaviour.
OverElements(elements, keys, it, vector, to, result) ==
    IF it > Len(keys) THEN Defined(result)
    ELSE LET key == keys[it]
         IN  IF key[to] >= Len(result) \/ key[3 - to] >= Len(vector)
             THEN Undefined(result)
             ELSE OverElements(elements, keys, it + 1, vector, to,
                      AddAt(result, key[to], elements[key] * vector[key[3 - to] + 1]))

RECURSIVE OverLine(_, _, _, _, _, _, _)
\* for(i = inner[j]; i < inner[j + 1]; ++i), from i to stop:
\*     dot:      result[j] += values[i] * vector[outer[i]];
\*     not dot:  result[outer[i]] += values[i] * vector[j];
OverLine(M, vector, j, i, stop, dot, result) ==
    IF i >= stop THEN result
    ELSE OverLine(M, vector, j, i + 1, stop, dot,
             IF dot
             THEN AddAt(result, j, M.values[i + 1] * vector[M.outer[i + 1] + 1])
             ELSE AddAt(result, M.outer[i + 1], M.values[i + 1] * vector[j + 1]))

RECURSIVE OverLines(_, _, _, _, _, _)
\* for(j = 0; j < lines; ++j) over the lines of a compressed matrix;
\* inner[j + 1] past the end of inner is undefined behaviour.
OverLines(M, vector, j, lines, dot, result) ==
    IF j >= lines THEN Defined(result)
    ELSE IF j + 2 > Len(M.inner) THEN Undefined(result)
    ELSE OverLines(M, vector, j + 1, lines, dot,
             OverLine(M, vector, j, M.inner[j + 1], M.inner[j + 2], dot, result))

\* operator *(const std::vector<T> &vector) const, past its assert.
MatrixVector(M, vector) ==
    LET result == Zeros(rows(M))
    IN  IF O = "Row"
        THEN IF ~M.compressed
             THEN OverElements(M.elements, SortKeys(DOMAIN M.elements), 1,
                               vector, 1, result)
             ELSE OverLines(M, vector, 0, Len(result), TRUE, result)
        ELSE IF ~M.compressed
             THEN OverElements(M.elements, SortKeys(DOMAIN M.elements), 1,
                               vector, 2, result)
             ELSE OverLines(M, vector, 0, Len(result), FALSE, result)

\* operator *(const std::vector<T> &vector, const Matrix &matrix), past its
\* assert.
VectorMatrix(vector, matrix) ==
    LET result == Zeros(columns(matrix))
    IN  IF O = "Column"
        THEN IF ~matrix.compressed
             THEN OverElements(matrix.elements, SortKeys(DOMAIN matrix.elements), 1,
                               vector, 1, result)
             ELSE OverLines(matrix, vector, 0, Len(result), TRUE, result)
        ELSE IF ~matrix.compressed
             THEN OverElements(matrix.elements, SortKeys(DOMAIN matrix.elements), 1,
                               vector, 2, result)
             ELSE OverLines(matrix, vector, 0, Len(result), FALSE, result)

\* m * vector without the assert on the size of vector: a vector of the
\* wrong size is indexed out of its range.
MulVectorUnchecked ==
    /\ Running
    /\ \E vector \in SeqsUpTo(Vals, MaxDim) :
          IF ~(Len(vector) = columns(m))
          THEN Do("matrix_vector", <<vector>>, m, "none", Undefined(Zeros(rows(m))))
          ELSE Do("matrix_vector", <<vector>>, m, "none", MatrixVector(m, vector))

\* m * vector
MulVector ==
    /\ Running
    /\ \E vector \in SeqsUpTo(Vals, MaxDim) :
          IF ~(Len(vector) = columns(m))
          THEN Do("matrix_vector", <<vector>>, m, "DimensionMismatch", NoRes)
          ELSE Do("matrix_vector", <<vector>>, m, "none", MatrixVector(m, vector))

\* vector * m
VectorMul ==
    /\ Running
    /\ \E vector \in SeqsUpTo(Vals, MaxDim) :
          IF ~(Len(vector) = rows(m))
          THEN Do("vector_matrix", <<vector>>, m, "DimensionMismatch", NoRes)
          ELSE Do("vector_matrix", <<vector>>, m, "none", VectorMatrix(vector, m))

\* A matrix built by the map constructor from a map within its bounds.
InitMap ==
    /\ O \in Orders
    /\ build = "sequential"
    /\ \E first \in Dims, second \in Dims :
          \E elements \in MapsOver(Keys(first, second), MaxNnz) :
              /\ m = MapMatrix(first, second, elements)
              /\ op = [name |-> "MatrixMap", args |-> <<first, second, elements>>]
    /\ err = "none"
    /\ copy = NoMatrix
    /\ ref = NoRef
    /\ snap = NoSnap
    /\ res = NoRes

NextVector ==
    \/ Compress
    \/ Uncompress
    \/ MulVector
    \/ VectorMul

SpecVector == InitMap /\ [][NextVector]_vars

\* The element at row i and column j of M.
Element(M, i, j) == IF O = "Row" THEN At(M, i, j) ELSE At(M, j, i)

RECURSIVE Sum(_, _)
\* f[1] + ... + f[n]
Sum(f, n) == IF n = 0 THEN 0 ELSE f[n] + Sum(f, n - 1)

\* The dense product of M and vector.
DenseMatrixVector(M, vector) ==
    [i \in 1 .. rows(M) |->
        Sum([j \in 1 .. columns(M) |-> Element(M, i - 1, j - 1) * vector[j]], columns(M))]

\* The dense product of vector and M.
DenseVectorMatrix(vector, M) ==
    [j \in 1 .. columns(M) |->
        Sum([i \in 1 .. rows(M) |-> vector[i] * Element(M, i - 1, j - 1)], rows(M))]

\* ------------------------------------------------------------------------
\* The product of two matrices of the same ordering.

RECURSIVE LineOf(_, _, _, _)
\* for(h = inner[j]; h < inner[j + 1]; ++h) line[outer[h]] = values[h];
\* from h to stop.
LineOf(M, h, stop, line) ==
    IF h >= stop THEN line
    ELSE LineOf(M, h + 1, stop, [line EXCEPT ![M.outer[h + 1] + 1] = M.values[h + 1]])

RECURSIVE LineFrom(_, _, _, _, _, _, _)
\* for(it = elements.lower_bound({j, 0}); (*it).first < {j + 1, 0}; ++it) {
\*     line[(*it).first[1]] = (*it).second;
\*     if((*it).first == stop) break; }
\* from iterator it.  At end() the condition reads the key G, and the body,
\* when G lets it run, reads and writes through end().
LineFrom(elements, keys, it, j, stop, G, line) ==
    IF it > Len(keys)
    THEN IF KeyLess(G, <<j + 1, 0>>) THEN Undefined(line) ELSE Defined(line)
    ELSE IF ~KeyLess(keys[it], <<j + 1, 0>>) THEN Defined(line)
    ELSE LET key == keys[it]
             written == [line EXCEPT ![key[2] + 1] = elements[key]]
         IN  IF key = stop THEN Defined(written)
             ELSE LineFrom(elements, keys, it + 1, j, stop, G, written)

\* The j-th line of M as a dense vector of size n.
Line(M, j, n, G) ==
    IF M.compressed
    THEN Defined(LineOf(M, M.inner[j + 1], M.inner[j + 2], Zeros(n)))
    ELSE LET keys == SortKeys(DOMAIN M.elements)
         IN  LineFrom(M.elements, keys, LowerBound(keys, <<j, 0>>), j,
                      keys[Len(keys)], G, Zeros(n))

RECURSIVE Update(_, _, _, _)
\* for(h = 0; h < product.size(); ++h)
\*     if(std::abs(product[h]) > TOLERANCE_PACS) elements[{j, h}] = product[h];
Update(elements, j, product, h) ==
    IF h >= Len(product) THEN elements
    ELSE Update(IF Above(product[h + 1]) THEN Put(elements, <<j, h>>, product[h + 1])
                ELSE elements,
                j, product, h + 1)

RECURSIVE Products(_, _, _, _, _, _, _, _, _)
\* The loop over the lines j .. lines - 1 of the matrix scanned: each line
\* is extracted as a vector of size n, combined with the entries of other
\* into a product of size p, and the product stored as line j of elements.
\* acc = [elements, ub].
Products(scanned, other, j, lines, n, p, to, G, acc) ==
    IF j >= lines THEN acc
    ELSE LET line == Line(scanned, j, n, G)
             product ==
                 IF other.compressed
                 THEN OverLines(other, line.vector, 0, n, FALSE, Zeros(p))
                 ELSE OverElements(other.elements, SortKeys(DOMAIN other.elements), 1,
                                   line.vector, to, Zeros(p))
         IN  Products(scanned, other, j + 1, lines, n, p, to, G,
                 [elements |-> Update(acc.elements, j, product.vector, 0),
                  ub |-> acc.ub \/ line.ub \/ product.ub])

\* Matrix operator *(const Matrix &matrix) const, past its assert: the
\* object returned, the contract violation of its constructor and whether
\* undefined behaviour was met.  Taking stop from an empty map is undefined.
MatrixMatrix(this, matrix, G) ==
    LET start == [elements |-> EmptyMap, ub |-> FALSE]
        scanned == IF O = "Row" THEN this ELSE matrix
        nostop == ~scanned.compressed /\ DOMAIN scanned.elements = {}
        filled ==
            IF nostop THEN [elements |-> EmptyMap, ub |-> TRUE]
            ELSE IF O = "Row"
            THEN Products(this, matrix, 0,
                          IF ~this.compressed /\ matrix.compressed
                          THEN rows(this) - 1 ELSE rows(this),
                          columns(this), columns(matrix), 2, G, start)
            ELSE Products(matrix, this, 0, columns(matrix),
                          rows(matrix), rows(this), 1, G, start)
        out == ConstructMap(rows(this), columns(matrix), filled.elements)
    IN  [m |-> out.m, err |-> out.err, ub |-> filled.ub]

\* The right-hand sides of a product.
Operands == UNION {Matrices(first, second, MaxNnz) : first \in Dims, second \in Dims}

\* m * matrix.  The product leaves m alone, so one taken straight after
\* another computes from the same m what it would have without it: only the
\* first of a run of products is taken.
MulMatrix ==
    /\ Running
    /\ res = NoRes
    /\ \E matrix \in Operands :
          IF ~(columns(m) = rows(matrix))
          THEN Do("matrix_matrix", <<matrix>>, m, "DimensionMismatch", NoRes)
          ELSE \E G \in GarbageKeys(MaxDim, 0) :
                  LET out == MatrixMatrix(m, matrix, G)
                  IN  Do("matrix_matrix", <<matrix>>, m, out.err,
                         [matrix |-> out.m, ub |-> out.ub])

NextMatrix ==
    \/ Compress
    \/ Uncompress
    \/ MulMatrix

SpecMatrix == InitMap /\ [][NextMatrix]_vars

\* The three products together.
NextProducts ==
    \/ Compress
    \/ Uncompress
    \/ MulVector
    \/ VectorMul
    \/ MulMatrix

SpecProducts == InitMap /\ [][NextProducts]_vars

\* The dense product of A and B as the coordinate map of its entries above
\* the tolerance, keyed in the ordering O.
DenseMatrixMatrix(A, B) ==
    LET entry(i, j) ==
            Sum([k \in 1 .. columns(A) |-> Element(A, i, k - 1) * Element(B, k - 1, j)],
                columns(A))
        at(key) == IF O = "Row" THEN entry(key[1], key[2]) ELSE entry(key[2], key[1])
        K == {key \in Keys(IF O = "Row" THEN rows(A) ELSE columns(B),
                           IF O = "Row" THEN columns(B) ELSE rows(A)) : Above(at(key))}
    IN  [key \in K |-> at(key)]

\* ------------------------------------------------------------------------
\* norm<One>() and norm<Infinity>().  T is int: the sums of the code, held in
\* doubles, are exact.

Max(S) == CHOOSE x \in S : \A y \in S : y <= x

\* std::ranges::max(sums)
MaxOf(sums) == Max({sums[i] : i \in DOMAIN sums})

RECURSIVE SumsOver(_, _, _, _, _)
\* for(const auto &[key, value]: this->elements)
\*     sums[key[at]] += std::abs(value);
\* with at the position 1 or 2 of the key.
SumsOver(elements, keys, it, at, sums) ==
    IF it > Len(keys) THEN sums
    ELSE SumsOver(elements, keys, it + 1, at,
                  AddAt(sums, keys[it][at], Abs(elements[keys[it]])))

RECURSIVE SumsOuter(_, _, _)
\* for(j = 0; j < values.size(); ++j) sums[outer[j]] += std::abs(values[j]);
SumsOuter(M, j, sums) ==
    IF j >= Len(M.values) THEN sums
    ELSE SumsOuter(M, j + 1, AddAt(sums, M.outer[j + 1], Abs(M.values[j + 1])))

\* norm<One>()
NormOne(M) ==
    IF ~M.compressed
    THEN MaxOf(SumsOver(M.elements, SortKeys(DOMAIN M.elements), 1, 2, Zeros(M.second)))
    ELSE MaxOf(SumsOuter(M, 0, Zeros(M.second)))

RECURSIVE LineSum(_, _, _, _)
\* for(k = inner[j]; k < inner[j + 1]; ++k) sum += values[k];
LineSum(M, k, stop, sum) ==
    IF k >= stop THEN sum ELSE LineSum(M, k + 1, stop, sum + M.values[k + 1])

RECURSIVE MaxLines(_, _, _)
\* for(j = 0; j < inner.size() - 1; ++j) max = sum > max ? sum : max;
MaxLines(M, j, max) ==
    IF j >= Len(M.inner) - 1 THEN max
    ELSE LET sum == LineSum(M, M.inner[j + 1], M.inner[j + 2], 0)
         IN  MaxLines(M, j + 1, IF sum > max THEN sum ELSE max)

\* norm<Infinity>()
NormInfinity(M) ==
    IF ~M.compressed
    THEN MaxOf(SumsOver(M.elements, SortKeys(DOMAIN M.elements), 1, 1, Zeros(M.first)))
    ELSE MaxLines(M, 0, 0)

\* m.norm<One>()
CallNormOne == Running /\ Do("norm_one", <<>>, m, "none", [norm |-> NormOne(m)])

\* m.norm<Infinity>()
CallNormInfinity ==
    Running /\ Do("norm_infinity", <<>>, m, "none", [norm |-> NormInfinity(m)])

NextNorm ==
    \/ Compress
    \/ Uncompress
    \/ CallNormOne
    \/ CallNormInfinity

SpecNorm == InitMap /\ [][NextNorm]_vars

RECURSIVE AbsSum(_, _)
\* The sum of the absolute values of elements at the keys K.
AbsSum(elements, K) ==
    IF K = {} THEN 0
    ELSE LET key == CHOOSE key \in K : TRUE
         IN  Abs(elements[key]) + AbsSum(elements, K \ {key})

\* The maximum over the indices 0 .. n - 1 at position at of the keys of the
\* sum of the absolute values stored under that index.
MaxAbsSum(elements, n, at) ==
    Max({AbsSum(elements, {key \in DOMAIN elements : key[at] = i}) : i \in 0 .. n - 1})

\* ------------------------------------------------------------------------
\* The constructor from inner, outer and values.

\* Matrix(first, second, inner, outer, values): the object and the contract
\* violation.  Its line assert(outer.size() = values.size()) assigns where
\* it would compare, which no compiler accepts once the constructor is
\* used: sizes stands for the outcome of that assert, either one.
ConstructCompressed(first, second, inner, outer, values, sizes) ==
    IF ~((first > 0) /\ (second > 0)) THEN Outcome(NoMatrix, "InvalidDimension")
    ELSE IF ~(Len(inner) = first + 1) THEN Outcome(NoMatrix, "MalformedCompressedForm")
    ELSE IF \E j \in 1 .. Len(inner) - 1 :
                \/ ~(inner[j] < Len(values))
                \/ ~(inner[j + 1] < Len(values))
                \/ ~(inner[j] <= inner[j + 1])
         THEN Outcome(NoMatrix, "MalformedCompressedForm")
    ELSE IF ~sizes THEN Outcome(NoMatrix, "MalformedCompressedForm")
    ELSE IF \E j \in 1 .. Len(outer) - 1 :
                \/ ~(outer[j] < second)
                \/ ~(outer[j + 1] < second)
                \/ ~(outer[j] < outer[j + 1])
         THEN Outcome(NoMatrix, "MalformedCompressedForm")
    ELSE Outcome([first |-> first, second |-> second, compressed |-> TRUE,
                  elements |-> EmptyMap, inner |-> inner, outer |-> outer,
                  values |-> values], "none")

\* The arguments of the constructor are chosen; no object yet.
InitArguments ==
    /\ O \in Orders
    /\ build = "sequential"
    /\ \E first \in Dims, second \in Dims :
          \E inner \in SeqsUpTo(0 .. MaxNnz, MaxDim + 1),
             outer \in SeqsUpTo(0 .. MaxDim, MaxNnz),
             values \in SeqsUpTo(Vals, MaxNnz) :
                op = [name |-> "arguments", args |-> <<first, second, inner, outer, values>>]
    /\ m = NoMatrix
    /\ err = "none"
    /\ copy = NoMatrix
    /\ ref = NoRef
    /\ snap = NoSnap
    /\ res = NoRes

\* Matrix m{first, second, inner, outer, values}
BuildCompressed ==
    /\ Running
    /\ op.name = "arguments"
    /\ \E sizes \in BOOLEAN :
          LET out == ConstructCompressed(op.args[1], op.args[2], op.args[3],
                                         op.args[4], op.args[5], sizes)
          IN  Do("MatrixCompressed", op.args, out.m, out.err, NoRes)

NextCompressed == BuildCompressed

SpecCompressed == InitArguments /\ [][NextCompressed]_vars

\* ------------------------------------------------------------------------
\* Insertion of a range next to single insertions.

InsertRangeKept == InsertRangeAs(TRUE)

NextRange ==
    \/ Insert
    \/ InsertRangeKept

SpecRange == InitMap /\ [][NextRange]_vars

RECURSIVE InsertEach(_, _, _, _, _, _)
\* insert(j, k, elements[(j - start[0]) * (end[1] - start[1]) + (k - start[1])])
\* for every (j, k) of the range, from (j, k) on.
InsertEach(M, start, end, elements, j, k) ==
    IF j >= end[1] THEN M
    ELSE IF k >= end[2] THEN InsertEach(M, start, end, elements, j + 1, start[2])
    ELSE InsertEach(
             insert(M, j, k,
                    elements[(j - start[1]) * (end[2] - start[2]) + (k - start[2]) + 1]).m,
             start, end, elements, j, k + 1)

\* ------------------------------------------------------------------------
\* Two objects: m and a copy of it.

\* Matrix copy{m}
CopyConstruct ==
    /\ Running
    /\ Step("copy_construct", <<>>, m, CopyMatrix(m), "none", NoRes)

\* copy = m
AssignCopy ==
    /\ Running
    /\ copy # NoMatrix
    /\ LET out == Assign(copy, m)
       IN  Step("copy_assign", <<>>, m, out.m, out.err, NoRes)

\* The program turns to the other object: the operations that follow are
\* called on what was copy.
Turn ==
    /\ Running
    /\ copy # NoMatrix
    /\ Step("turn", <<>>, copy, m, "none", NoRes)

NextCopy ==
    \/ CopyConstruct
    \/ AssignCopy
    \/ Turn
    \/ InsertAbove
    \/ Compress
    \/ Uncompress
    \/ ScalarMul
    \/ ScalarDiv

\* An empty matrix of at most MaxCells coordinates, and no copy of it yet.
InitCopy ==
    /\ O \in Orders
    /\ build = "sequential"
    /\ \E first \in Dims, second \in Dims :
          /\ first * second <= MaxCells
          /\ m = EmptyMatrix(first, second)
          /\ op = [name |-> "Matrix", args |-> <<first, second>>]
    /\ err = "none"
    /\ copy = NoMatrix
    /\ ref = NoRef
    /\ snap = NoSnap
    /\ res = NoRes

SpecCopy == InitCopy /\ [][NextCopy]_vars

\* ------------------------------------------------------------------------
\* Properties.

InsertOps == {"insert", "insert_vector", "insert_range"}

\* Every stored value of a coordinate map is above the tolerance.
AllAbove(elements) == \A key \in DOMAIN elements : Above(elements[key])

\* C1: compress() then uncompress() on an uncompressed matrix whose stored
\* values are all above the tolerance gives back the same coordinate map.
C1_RoundTrip ==
    (op.name = "uncompress" /\ snap.taken /\ AllAbove(snap.elements))
        => m.elements = snap.elements

\* The value ref holds at key, zero where nothing was inserted.
RefAt(key) == IF key \in DOMAIN ref.elements THEN ref.elements[key] ELSE 0

\* C2: from an empty matrix, through inserts of values above the tolerance,
\* compress() and uncompress(), operator() returns at every coordinate the
\* value inserted there last, zero if none was.
C2_Refines ==
    Running => \A key \in Keys(m.first, m.second) : At(m, key[1], key[2]) = RefAt(key)

\* C3: matrix * vector has length rows() and its i-th entry is the sum over
\* j of M(i, j) * vector[j].
C3_MatrixVector ==
    (op.name = "matrix_vector" /\ Len(op.args[1]) = columns(m))
        => /\ err = "none"
           /\ ~res.ub
           /\ res.vector = DenseMatrixVector(m, op.args[1])

\* C4: for A.columns() = B.rows() the product A * B is returned, has
\* rows(A) rows and columns(B) columns, and stores at the logical entry
\* (i, j) the sum over k of A(i, k) * B(k, j) when that sum is above the
\* tolerance and nothing otherwise.
C4_MatrixMatrix ==
    (op.name = "matrix_matrix" /\ columns(m) = rows(op.args[1]))
        => /\ err = "none"
           /\ ~res.ub
           /\ rows(res.matrix) = rows(m)
           /\ columns(res.matrix) = columns(op.args[1])
           /\ Content(res.matrix) = DenseMatrixMatrix(m, op.args[1])

\* C5: vector * matrix has length columns() and its j-th entry is the sum
\* over i of vector[i] * M(i, j).
C5_VectorMatrix ==
    (op.name = "vector_matrix" /\ Len(op.args[1]) = rows(m))
        => /\ err = "none"
           /\ ~res.ub
           /\ res.vector = DenseVectorMatrix(op.args[1], m)

\* C6: exactly one storage body is populated: uncompressed, the three
\* vectors are empty; compressed, the coordinate map is empty.
C6_Exclusive ==
    /\ ~m.compressed => (m.inner = <<>> /\ m.outer = <<>> /\ m.values = <<>>)
    /\ m.compressed => m.elements = EmptyMap

\* An uncompressed body with entries restored by uncompress() from a
\* compressed one.
C6_Witness ==
    /\ op.name = "uncompress"
    /\ snap.taken
    /\ ~m.compressed
    /\ m.elements # EmptyMap

\* The compressed body of M is well formed.
WellFormed(M) ==
    /\ Len(M.inner) = M.first + 1
    /\ M.inner[1] = 0
    /\ \A j \in 1 .. M.first : M.inner[j] <= M.inner[j + 1]
    /\ M.inner[M.first + 1] = Len(M.outer)
    /\ Len(M.outer) = Len(M.values)
    /\ \A i \in 1 .. Len(M.outer) : M.outer[i] < M.second
    /\ \A j \in 1 .. M.first :
          \A i \in (M.inner[j] + 1) .. (M.inner[j + 1] - 1) : M.outer[i] < M.outer[i + 1]

\* C7: after compress() the compressed body is well formed: inner has
\* length first + 1, starts at 0, is non-decreasing and ends at the number
\* of stored values; outer is below second and strictly increasing within
\* each line.
C7_WellFormed == op.name = "compress" => WellFormed(m)

\* compress() of a map with two entries in one line, both kept.
C7_Witness ==
    /\ op.name = "compress"
    /\ snap.taken
    /\ Cardinality(DOMAIN snap.elements) = 2
    /\ Len(m.values) = 2
    /\ \E j \in 1 .. m.first : m.inner[j + 1] - m.inner[j] = 2

\* C8 as stated: every insert, insert_vector and insert_range on a
\* compressed matrix fails with CompressedMutation and changes nothing.
C8_Original ==
    [][(m.compressed /\ op'.name \in InsertOps)
          => (err' = "CompressedMutation" /\ m' = m)]_vars

\* insert(j, k, element) with (j, k) out of the bounds of M.
InsertOutOfBounds(o, M) ==
    o.name = "insert" /\ ~(o.args[1] < M.first /\ o.args[2] < M.second)

\* C8, amended: on a compressed matrix insert_vector, insert_range and
\* insert within bounds fail with CompressedMutation, insert out of bounds
\* fails with OutOfBounds, and none of them changes the matrix.
C8_Amended ==
    [][(m.compressed /\ op'.name \in InsertOps)
          => /\ m' = m
             /\ err' = IF InsertOutOfBounds(op', m) THEN "OutOfBounds"
                       ELSE "CompressedMutation"]_vars

\* insert_vector refused on a compressed matrix that holds entries.
C8_Witness ==
    /\ op.name = "insert_vector"
    /\ err = "CompressedMutation"
    /\ m.compressed
    /\ Len(m.values) > 0

\* C9: an operation that reports a contract violation leaves the matrix as
\* it was before the call.
C9_Atomic == [][err' # "none" => m' = m]_vars

\* C10: the map constructor with a key out of bounds, insert and
\* operator() with an index out of bounds fail with OutOfBounds.
C10_Bounds ==
    /\ (/\ op.name = "MatrixMap"
        /\ op.args[1] > 0 /\ op.args[2] > 0
        /\ ~KeysInBounds(op.args[1], op.args[2], op.args[3]))
          => err = "OutOfBounds"
    /\ (op.name \in {"insert", "call"} /\ ~(op.args[1] < m.first /\ op.args[2] < m.second))
          => err = "OutOfBounds"

\* The map constructor given the key (first, 0).
C10_Witness ==
    /\ op.name = "MatrixMap"
    /\ op.args[1] > 0 /\ op.args[2] > 0
    /\ <<op.args[1], 0>> \in DOMAIN op.args[3]
    /\ err = "OutOfBounds"

\* C11: matrix * vector with vector.size() # columns(), vector * matrix
\* with vector.size() # rows() and A * B with A.columns() # B.rows() fail
\* with DimensionMismatch and compute no result.
C11_Mismatch ==
    /\ (op.name = "matrix_vector" /\ Len(op.args[1]) # columns(m))
          => (err = "DimensionMismatch" /\ res = NoRes)
    /\ (op.name = "vector_matrix" /\ Len(op.args[1]) # rows(m))
          => (err = "DimensionMismatch" /\ res = NoRes)
    /\ (op.name = "matrix_matrix" /\ columns(m) # rows(op.args[1]))
          => (err = "DimensionMismatch" /\ res = NoRes)

\* A product of two matrices refused: the columns of one are not as many
\* as the rows of the other.
C11_Witness ==
    /\ op.name = "matrix_matrix"
    /\ columns(m) = 2
    /\ rows(op.args[1]) = 1
    /\ err = "DimensionMismatch"

\* C12: compress() on a compressed matrix and uncompress() on an
\* uncompressed matrix change neither the flag, nor the coordinate map, nor
\* the three vectors.
C12_Idempotent ==
    [][/\ (m.compressed /\ op'.name = "compress") => m' = m
       /\ (~m.compressed /\ op'.name = "uncompress") => m' = m]_vars

\* compress() called on a matrix that was compressed already and holds
\* entries: snap is taken only by a compress() of an uncompressed matrix.
C12_Witness ==
    /\ op.name = "compress"
    /\ m.compressed
    /\ ~snap.taken
    /\ Len(m.values) > 0

\* C13: norm<Infinity>() is the maximum over the primary lines of the sum
\* of the absolute values stored in the line, in uncompressed and in
\* compressed form alike.
C13_NormInfinity ==
    op.name = "norm_infinity" => res.norm = MaxAbsSum(Content(m), m.first, 1)

\* C14: norm<One>() is the maximum over the secondary indices of the sum of
\* the absolute values stored under the index, and after compress() it is
\* what it was for the coordinate map compress() started from.
C14_NormOne ==
    op.name = "norm_one"
        => /\ res.norm = MaxAbsSum(Content(m), m.second, 2)
           /\ (m.compressed /\ snap.taken)
                 => res.norm = MaxAbsSum(snap.elements, m.second, 2)

\* C15: every value stored in the coordinate map or in the values vector
\* has a magnitude above the tolerance.
C15_Materialized ==
    Running => /\ AllAbove(m.elements)
               /\ \A i \in DOMAIN m.values : Above(m.values[i])

\* The primary line p of a coordinate map holds no entry.
LineEmpty(elements, p) == \A key \in DOMAIN elements : key[1] # p

C17_Shape ==
    /\ [][/\ m'.first = m.first
          /\ m'.second = m.second
          /\ (op'.name \in {"compress", "uncompress"}) => shape(m') = shape(m)]_vars
    /\ [](/\ O = "Row" => (rows(m) = m.first /\ columns(m) = m.second)
          /\ O = "Column" => (rows(m) = m.second /\ columns(m) = m.first))

\* A matrix of 1 row and 2 columns in the Column ordering, compressed.
C17_Witness ==
    /\ op.name = "compress"
    /\ O = "Column"
    /\ m.compressed
    /\ shape(m) = <<1, 2>>
    /\ m.first = 2

\* C18: the constructor from inner, outer and values accepts the triples
\* that are well formed and rejects every other one with
\* MalformedCompressedForm.
C18_Validation ==
    op.name = "MatrixCompressed"
        => LET M == [first |-> op.args[1], second |-> op.args[2], inner |-> op.args[3],
                     outer |-> op.args[4], values |-> op.args[5]]
           IN  IF WellFormed(M) THEN err = "none"
               ELSE err = "MalformedCompressedForm"

\* The arguments of insert_range describe a range within M, lines and
\* secondary indices up to the last ones included, and as many elements as
\* the range holds.
RangeWithin(M, start, end, elements) ==
    /\ start[1] < end[1] /\ end[1] <= M.first
    /\ start[2] < end[2] /\ end[2] <= M.second
    /\ Len(elements) = (end[1] - start[1]) * (end[2] - start[2])

\* C19: on an uncompressed matrix insert_range over a range within the
\* matrix, with one element for each of its coordinates, does what the
\* single insertions of those elements do.
C19_Range ==
    [][(/\ op'.name = "insert_range"
        /\ ~m.compressed
        /\ op'.args # <<>>
        /\ RangeWithin(m, op'.args[1], op'.args[2], op'.args[3]))
          => /\ err' = "none"
             /\ m' = InsertEach(m, op'.args[1], op'.args[2], op'.args[3],
                                op'.args[1][1], op'.args[1][2])]_vars

\* C20: the copy constructor and the copy assignment give an object with
\* the dimensions, the mode and the stored entries of their source and
\* leave the source alone; insert, compress(), uncompress(), *= and /=
\* called on one of the two objects leave the other one as it is.
C20_Independent ==
    /\ [](((op.name \in {"copy_construct", "copy_assign"}) /\ Running) => copy = m)
    /\ [][/\ (op'.name \in {"copy_construct", "copy_assign"}) => m' = m
          /\ (op'.name \in {"insert", "compress", "uncompress", "mul_assign", "div_assign"})
                => copy' = copy]_vars

\* An insert into one of two equal objects has made them differ.
C20_Witness ==
    /\ op.name = "insert"
    /\ Running
    /\ copy # NoMatrix
    /\ Cardinality(DOMAIN copy.elements) = 1
    /\ Cardinality(DOMAIN m.elements) = 2

\* C21: for every pair of operands of matching dimensions, in each of the
\* four combinations of compressed and uncompressed operands, the product
\* m * matrix returns a matrix; that matrix is uncompressed and stores only
\* entries whose absolute value exceeds the tolerance; the left operand is
\* left as it was (the right operand is the argument recorded in op).
C21_ProductForm ==
    [][(/\ op'.name = "matrix_matrix"
        /\ columns(m) = rows(op'.args[1]))
          => /\ m' = m
             /\ err' = "none"
             /\ ~res'.ub
             /\ ~res'.matrix.compressed
             /\ AllAbove(res'.matrix.elements)]_vars

\* ---------------------------------------------------------------------
\* The Matrix Market dumper and loader.

\* file << value: the decimal text of a value, a sign and the digits of its
\* magnitude.
Written(value) == [negative |-> value < 0, digits |-> Abs(value)]

\* data >> element; static_cast<T>(element): the value of a decimal text.
Parsed(text) == IF text.negative THEN 0 - text.digits ELSE text.digits

\* row - 1 on std::size_t: 0 wraps to the largest value of the type, which
\* is above every dimension; it is the largest integer here.
Decrement(n) == IF n = 0 THEN 2147483647 ELSE n - 1

\* A line of data: row, column and the text of the value.
DataLine(row, column, value) == [row |-> row, column |-> column, text |-> Written(value)]

\* for(const auto &[key, value]: elements)
\*     file << key[0] << " " << key[1] << " " << value << "\n";   (Row)
\*     file << key[1] << " " << key[0] << " " << value << "\n";   (Column)
DumpElements(elements) ==
    LET keys == SortKeys(DOMAIN elements)
    IN  [i \in 1 .. Len(keys) |->
            IF O = "Row" THEN DataLine(keys[i][1], keys[i][2], elements[keys[i]])
            ELSE DataLine(keys[i][2], keys[i][1], elements[keys[i]])]

RECURSIVE DumpCompressed(_, _, _)
\* for(j = 0; j < inner.size() - 1; ++j)
\*     for(k = inner[j]; k < inner[j + 1]; ++k)
\*         file << j << " " << outer[k] << " " << values[k] << "\n";   (Row)
\*         file << outer[k] << " " << j << " " << values[k] << "\n";   (Column)
DumpCompressed(M, j, data) ==
    IF j >= Len(M.inner) - 1 THEN data
    ELSE DumpCompressed(M, j + 1,
            data \o [i \in 1 .. (M.inner[j + 2] - M.inner[j + 1]) |->
                        LET k == M.inner[j + 1] + i
                        IN  IF O = "Row" THEN DataLine(j, M.outer[k], M.values[k])
                            ELSE DataLine(M.outer[k], j, M.values[k])])

\* void market(const Matrix<T, O> &matrix, const std::string &filename):
\* the file written, its size line and its lines of data.
MarketDumped(matrix) ==
    [rows |-> rows(matrix), columns |-> columns(matrix), size |-> size(matrix),
     data |-> IF ~matrix.compressed THEN DumpElements(matrix.elements)
              ELSE DumpCompressed(matrix, 0, <<>>)]

RECURSIVE LoadData(_, _, _)
\* while(std::getline(file, line)) { data >> row >> column >> element;
\*     elements[{row - 1, column - 1}] = static_cast<T>(element);     (Row)
\*     elements[{column - 1, row - 1}] = static_cast<T>(element); }   (Column)
LoadData(data, i, elements) ==
    IF i > Len(data) THEN elements
    ELSE LET row == Decrement(data[i].row)
             column == Decrement(data[i].column)
         IN  LoadData(data, i + 1,
                      Put(elements,
                          IF O = "Row" THEN <<row, column>> ELSE <<column, row>>,
                          Parsed(data[i].text)))

\* Matrix<T, O> market(const std::string &filename): the matrix built from
\* a file and the contract violation of its constructor.
MarketLoaded(file) ==
    ConstructMap(IF O = "Row" THEN file.rows ELSE file.columns,
                 IF O = "Row" THEN file.columns ELSE file.rows,
                 LoadData(file.data, 1, EmptyMap))

\* market(m, filename)
MarketDump ==
    /\ Running
    /\ Do("market_dump", <<>>, m, "none", [file |-> MarketDumped(m)])

\* market<T, O>(filename) on the file just dumped; the matrix loaded is the
\* second object.
MarketLoad ==
    /\ Running
    /\ op.name = "market_dump"
    /\ LET out == MarketLoaded(res.file)
       IN  Step("market_load", <<>>, m, out.m, out.err, res)

NextMarket ==
    \/ Compress
    \/ Uncompress
    \/ MarketDump
    \/ MarketLoad

SpecMarket == InitMap /\ [][NextMarket]_vars

\* C22: a matrix dumped by market(matrix, path) and loaded by
\* market<T, O>(path) comes back with the same shape and the same logical
\* entries, in either ordering and from either storage mode.
C22_MarketRoundTrip ==
    (op.name = "market_load")
        => /\ err = "none"
           /\ shape(copy) = shape(m)
           /\ \A j \in 0 .. (m.first - 1), k \in 0 .. (m.second - 1) :
                 At(copy, j, k) = At(m, j, k)

\* C23: the product m * matrix of operands of matching dimensions, square
\* or not, in either ordering, is returned with rows() equal to m.rows()
\* and columns() equal to matrix.columns(), every stored key within the
\* bounds of the result.
C23_ProductShape ==
    (/\ op.name = "matrix_matrix"
     /\ columns(m) = rows(op.args[1]))
        => /\ err = "none"
           /\ rows(res.matrix) = rows(m)
           /\ columns(res.matrix) = columns(op.args[1])
           /\ KeysInBounds(res.matrix.first, res.matrix.second, res.matrix.elements)

\* The iterators compress() dereferences on an uncompressed matrix: in the
\* pass for line j the loop condition reads *(elements.lower_bound(next))
\* with next = {j, 0}, which is end() when no key is at or past line j.
CompressReadsEnd(M) ==
    LET keys == SortKeys(DOMAIN M.elements)
    IN  /\ ~M.compressed
        /\ \E j \in 1 .. M.first : LowerBound(keys, <<j, 0>>) > Len(keys)

\* C24: compress() on an uncompressed matrix, the empty one and one with
\* entries on its last line included, never dereferences elements.end(),
\* and appends every stored entry above the tolerance exactly once.
C24_CompressDefined ==
    (op.name = "compress" /\ snap.taken)
        => /\ ~CompressReadsEnd(MapMatrix(m.first, m.second, snap.elements))
           /\ Len(m.values) = Cardinality({key \in DOMAIN snap.elements :
                                              Above(snap.elements[key])})
           /\ \A key \in DOMAIN snap.elements :
                 Above(snap.elements[key]) => At(m, key[1], key[2]) = snap.elements[key]

\* The iterators the line extraction of this * matrix moves and reads on an
\* uncompressed scanned operand: stop = (*(--elements.end())).first
\* decrements begin() when the map is empty, and the loop condition reads
\* *(elements.lower_bound({j, 0})), which is end() when no key is at or
\* past line j.
ScanUndefined(this, matrix) ==
    LET scanned == IF O = "Row" THEN this ELSE matrix
        lines == IF O = "Row"
                 THEN IF ~this.compressed /\ matrix.compressed
                      THEN rows(this) - 1 ELSE rows(this)
                 ELSE columns(matrix)
        keys == SortKeys(DOMAIN scanned.elements)
    IN  /\ ~scanned.compressed
        /\ \/ keys = <<>>
           \/ \E j \in 0 .. (lines - 1) : LowerBound(keys, <<j, 0>>) > Len(keys)

\* C25: in a product of operands of matching dimensions the extraction of
\* the lines of the scanned operand, an empty operand and one with trailing
\* empty lines included, neither decrements begin() nor dereferences end().
C25_ExtractionDefined ==
    (/\ op.name = "matrix_matrix"
     /\ columns(m) = rows(op.args[1]))
        => ~ScanUndefined(m, op.args[1])

\* C26: after insert(j, k, element) within bounds on an uncompressed matrix,
\* operator()(j, k) differs from element by at most the tolerance, also for
\* an element within the tolerance written over a stored value, and
\* operator() is unchanged at every other coordinate.
C26_WriteThenRead ==
    [][(/\ op'.name = "insert"
        /\ ~m.compressed
        /\ op'.args[1] < m.first
        /\ op'.args[2] < m.second)
          => /\ err' = "none"
             /\ Abs(At(m', op'.args[1], op'.args[2]) - op'.args[3]) <= TOLERANCE_PACS
             /\ \A j \in 0 .. (m.first - 1), k \in 0 .. (m.second - 1) :
                   (<<j, k>> # <<op'.args[1], op'.args[2]>>)
                       => At(m', j, k) = At(m, j, k)]_vars

\* C27: operator()(j, k) is a pure read: the coordinate map, the three
\* vectors, size() and is_compressed() are after the call what they were
\* before it, and a read of an absent coordinate of an uncompressed matrix
\* adds no entry to the map.
C27_PureRead ==
    [][(op'.name = "call")
          => /\ m' = m
             /\ size(m') = size(m)
             /\ (err' = "none" => res' = At(m, op'.args[1], op'.args[2]))]_vars

\* A read of a coordinate that an uncompressed matrix does not store.
C27_Witness ==
    /\ op.name = "call"
    /\ err = "none"
    /\ ~m.compressed
    /\ DOMAIN m.elements # {}
    /\ <<op.args[1], op.args[2]>> \notin DOMAIN m.elements
    /\ res = 0

\* ---------------------------------------------------------------------
\* The scalar operators, in both builds.

\* The scalars of a product or a quotient.
Scalars == (0 - MaxScalar) .. MaxScalar

InitScalar ==
    /\ O \in Orders
    /\ build \in Builds
    /\ \E first \in Dims, second \in Dims :
          \E elements \in MapsOver(Keys(first, second), MaxNnz) :
              /\ m = MapMatrix(first, second, elements)
              /\ op = [name |-> "MatrixMap", args |-> <<first, second, elements>>]
    /\ err = "none"
    /\ copy = NoMatrix
    /\ ref = NoRef
    /\ snap = NoSnap
    /\ res = NoRes

\* m * scalar
MulScalar ==
    /\ Running
    /\ InVals(m)
    /\ \E scalar \in Scalars :
        Effect("mul", <<scalar>>, m, copy, "none", [matrix |-> Mul(m, scalar)])

\* scalar * m: return matrix * scalar;
ScalarTimes ==
    /\ Running
    /\ InVals(m)
    /\ \E scalar \in Scalars :
        Effect("scalar_mul", <<scalar>>, m, copy, "none", [matrix |-> Mul(m, scalar)])

\* m / scalar
DivScalar ==
    /\ Running
    /\ InVals(m)
    /\ \E scalar \in Scalars \ {0} :
        Effect("div", <<scalar>>, m, copy, "none", [matrix |-> Div(m, scalar)])

\* m /= scalar, scalar in Scalars.
DivideAssign ==
    /\ Running
    /\ InVals(m)
    /\ \E scalar \in Scalars \ {0} :
        Effect("div_assign", <<scalar>>, div_assign(m, scalar), copy, "none", NoRes)

NextScalar ==
    \/ Compress
    \/ Uncompress
    \/ MulScalar
    \/ ScalarTimes
    \/ DivScalar
    \/ DivideAssign

SpecScalar == InitScalar /\ [][NextScalar]_vars

\* C28: m * scalar and scalar * m return a matrix with the dimensions, the
\* storage mode and the stored coordinates of m, each stored value being
\* the value of m multiplied by scalar, and leave m as it was.
C28_ScalarProduct ==
    [][(op'.name \in {"mul", "scalar_mul"})
          => LET result == res'.matrix
                 scalar == op'.args[1]
             IN  /\ m' = m
                 /\ result.first = m.first
                 /\ result.second = m.second
                 /\ result.compressed = m.compressed
                 /\ DOMAIN result.elements = DOMAIN m.elements
                 /\ \A key \in DOMAIN m.elements :
                       result.elements[key] = m.elements[key] * scalar
                 /\ result.inner = m.inner
                 /\ result.outer = m.outer
                 /\ DOMAIN result.values = DOMAIN m.values
                 /\ \A i \in DOMAIN m.values : result.values[i] = m.values[i] * scalar]_vars

\* A compressed matrix with a stored value has been doubled from the left.
C28_Witness ==
    /\ op.name = "scalar_mul"
    /\ op.args[1] = MaxScalar
    /\ m.compressed
    /\ m.values # <<>>
    /\ res.matrix.values = [i \in DOMAIN m.values |-> m.values[i] * MaxScalar]

\* C29: m /= scalar leaves in m what m / scalar returns, in the sequential
\* build and in the PARALLEL_PACS build.
C29_DivAssignAgrees ==
    [][(op'.name = "div_assign") => m' = Div(m, op'.args[1])]_vars

\* ---------------------------------------------------------------------
\* The conversion to std::vector<T>.

RECURSIVE VectorOfElements(_, _, _, _)
\* for(const auto &[key, value]: this->elements) vector[key[1]] = value;
VectorOfElements(elements, keys, i, vector) ==
    IF i > Len(keys) THEN vector
    ELSE VectorOfElements(elements, keys, i + 1,
                          [vector EXCEPT ![keys[i][2] + 1] = elements[keys[i]]])

RECURSIVE VectorOfLine(_, _, _, _, _)
\* for(k = this->inner[j]; k < this->inner[j + 1]; ++k)
\*     vector[j + this->outer[k]] = this->values[k];
VectorOfLine(M, j, k, stop, vector) ==
    IF k >= stop THEN vector
    ELSE VectorOfLine(M, j, k + 1, stop,
                      [vector EXCEPT ![j + M.outer[k + 1] + 1] = M.values[k + 1]])

RECURSIVE VectorOfLines(_, _, _)
\* for(j = 0; j < this->inner.size() - 1; ++j)
VectorOfLines(M, j, vector) ==
    IF j >= Len(M.inner) - 1 THEN vector
    ELSE VectorOfLines(M, j + 1,
                       VectorOfLine(M, j, M.inner[j + 1], M.inner[j + 2], vector))

\* operator std::vector<T>() const, past its assert.
ToVector(M) ==
    LET vector == Zeros(M.first * M.second)
    IN  IF ~M.compressed
        THEN VectorOfElements(M.elements, SortKeys(DOMAIN M.elements), 1, vector)
        ELSE VectorOfLines(M, 0, vector)

\* static_cast<std::vector<T>>(m)
Convert ==
    /\ Running
    /\ IF ~((m.first = 1) \/ (m.second = 1))
       THEN Do("vector", <<>>, m, "NotAVector", NoRes)
       ELSE Do("vector", <<>>, m, "none", [vector |-> ToVector(m)])

NextConvert ==
    \/ Compress
    \/ Uncompress
    \/ Convert

SpecConvert == InitMap /\ [][NextConvert]_vars

\* C30: the conversion of a matrix with first == 1 or second == 1 returns
\* a vector of length first * second whose entry p is the element of the
\* matrix at the p-th coordinate along the dimension that is not 1, from
\* the uncompressed and from the compressed storage alike.
C30_Conversion ==
    (op.name = "vector" /\ Running)
        => /\ Len(res.vector) = m.first * m.second
           /\ \A p \in 0 .. (m.first * m.second - 1) :
                 res.vector[p + 1] = IF m.second = 1 THEN At(m, p, 0) ELSE At(m, 0, p)

====
